---- MODULE Spec2Model ----
(***************************************************************************)
(* gazouilli: WAV -> (note, duration) pairs -> MIDI.                       *)
(*                                                                         *)
(* The module models the note quantizer (clamp), the run-length segmenter  *)
(* (collect_consecutive_values / gather_notes), the filters                *)
(* (weed_out_short_notes, absorb_short_notes) and the MIDI writer          *)
(* (var_len, strip_trailing_silence, Midi.__init__, Midi.write,            *)
(* round_to_closest_sixteenth_note), and the programs that configure and   *)
(* run a conversion (__main__, cli.run, convert).                          *)
(*                                                                         *)
(* Python sequences are 0-based, TLA+ sequences 1-based: At(a, i) reads    *)
(* the element Python calls a[i].                                          *)
(*                                                                         *)
(* Frequencies are exact rationals counted in units of 0.005 Hz, so that   *)
(* every table entry (two decimals) and every midpoint of two adjacent     *)
(* entries is an integer.  Python computes with binary floating point;     *)
(* the model computes the same comparisons without rounding.               *)
(***************************************************************************)
EXTENDS Integers, Sequences, FiniteSets, TLC

VARIABLES
    pc,            \* position of the operation under analysis
    freq,          \* clamp: the argument
    note,          \* clamp: the returned index
    raised,        \* name of the exception the operation raised, "" if none
    seq,           \* segmenter: the note index of every window
    pairs,         \* segmenter: the (value, count) pairs returned
    fpairs,        \* filter: the (note, duration) pairs passed in
    absorb_i,      \* absorb_short_notes: the scan index i
    result,        \* filter: the pairs kept so far / returned
    value,         \* var_len: the argument
    bytes,         \* var_len: the bytes returned
    mpairs,        \* Midi: the (note, duration) pairs given to the constructor
    division,      \* Midi: ticks per quarter note
    tempo,         \* Midi: microseconds per quarter note
    normalize_note_length,
    track,         \* Midi: self.track, the (time, event, note) triples
    track_k,       \* Midi.write: how many track entries the loop has taken
    running_time,  \* Midi.write: ticks of the skipped silences
    buf,           \* Midi.write: the bytes of the track body
    fp,            \* Midi.write: the bytes written to the output stream
    length_ticks,  \* round_to_closest_sixteenth_note: the argument length_in_ticks
    round_division,\* round_to_closest_sixteenth_note: the argument division
    rounded,       \* round_to_closest_sixteenth_note: the value returned
    prog,          \* run: which program runs ("legacy", "package", "cli")
    conf,          \* run: TRUE if the options come from a JSON file (args.conf)
    filters_names, \* run: the filter names configured, in order
    writer,        \* run: the writer name configured, "" if none
    output,        \* run: the output file configured, "" if none
    stdout,        \* run: the stdout option
    wav,           \* run: what wave.open finds in the input file
    clamped_freqs, \* run: the note index of every window of the input
    cpairs,        \* run: the (note, duration) pairs in the pipeline
    dur_den,       \* run: durations of cpairs are counted in 1/dur_den
    filter_calls,  \* run: how many filter calls have been made
    infile_opened, \* run: TRUE once the input file has been opened
    output_state,  \* run: "none", "opened" (created, empty) or "complete"
    writer_pairs,  \* run: the pairs the writer was constructed with
    error,         \* run: the exception that ended the run, "" if none
    message        \* run: the label of that exception

clampVars == <<freq, note, raised>>
segVars == <<seq, pairs>>
filterVars == <<fpairs, absorb_i, result>>
varLenVars == <<value, bytes>>
midiArgs == <<mpairs, division, tempo, normalize_note_length>>
midiVars == <<midiArgs, track, track_k, running_time, buf, fp>>
roundVars == <<length_ticks, round_division, rounded>>
runConf == <<prog, conf, filters_names, writer, output, stdout, wav, clamped_freqs>>
runVars == <<runConf, cpairs, dur_den, filter_calls, infile_opened, output_state,
             writer_pairs, error, message>>

otherRunVars == <<clampVars, segVars, filterVars, varLenVars, midiVars, roundVars>>

vars == <<pc, clampVars, segVars, filterVars, varLenVars, midiVars, roundVars, runVars>>

At(a, i) == a[i + 1]

(***************************************************************************)
(* utils.py: TABLE.  Entries in units of 0.005 Hz.  The last entry,        *)
(* float(sys.maxsize) = 2^63 Hz, lies outside the model checker's          *)
(* integers; it is represented by 2^30 units, which keeps what the code    *)
(* uses of it: it is larger than every other entry and than every          *)
(* frequency the analysis produces (at most framerate/4 = 11025 Hz).       *)
(***************************************************************************)
TABLE == <<
    0, 1732, 1836, 1944, 2060, 2182, 2312, 2450,
    2596, 2750, 2914, 3086, 3270, 3464, 3670, 3890,
    4120, 4366, 4624, 4900, 5192, 5500, 5828, 6174,
    6540, 6930, 7342, 7778, 8240, 8730, 9250, 9800,
    10382, 11000, 11654, 12348, 13082, 13860, 14684, 15556,
    16482, 17462, 18500, 19600, 20766, 22000, 23308, 24694,
    26162, 27718, 29366, 31112, 32962, 34922, 37000, 39200,
    41530, 44000, 46616, 49388, 52326, 55436, 58732, 62226,
    65926, 69846, 73998, 78400, 83060, 88000, 93232, 98776,
    104650, 110874, 117466, 124450, 131852, 139692, 147998, 156798,
    166122, 176000, 186466, 197554, 209300, 221746, 234932, 248902,
    263702, 279382, 295996, 313596, 332244, 352000, 372932, 395106,
    418600, 443492, 469864, 497804, 527404, 558766, 591992, 627192,
    664488, 704000, 745862, 790214, 837202, 886984, 939728, 995606,
    1054808, 1117530, 1183982, 1254386, 1328976, 1408000, 1491724, 1580426,
    1674404, 1773968, 1879454, 1991212, 2109616, 2235060, 2367964, 2508770,
    1073741824 >>

\* bisect.bisect (bisect_right): the insertion point after any equal entries.
RECURSIVE bisect_search(_, _, _, _)
bisect_search(a, x, lo, hi) ==
    IF lo < hi
    THEN LET mid == (lo + hi) \div 2
         IN  IF x < At(a, mid)
             THEN bisect_search(a, x, lo, mid)
             ELSE bisect_search(a, x, mid + 1, hi)
    ELSE lo

bisect(a, x) == bisect_search(a, x, 0, Len(a))

\* clamp raises IndexError when TABLE[i] is read past the end of the table.
clamp_raises(f) == bisect(TABLE, f) >= Len(TABLE)

\* clamp: the value returned when TABLE[i - 1] and TABLE[i] both exist.
clamp(f) ==
    LET i     == bisect(TABLE, f)
        left  == At(TABLE, i - 1)
        right == At(TABLE, i)
    IN  IF (f - left) < (right - f) THEN i - 1 ELSE i

---------------------------------------------------------------------------
(* Quantizer under analysis: one call of clamp on a non-negative frequency *)

Midpoint(k) == At(TABLE, k) + (At(TABLE, k + 1) - At(TABLE, k)) \div 2

ClampInputs ==
    LET n == Len(TABLE)
        around(x) == {y \in {x - 1, x, x + 1} : y >= 0}
    IN  UNION {around(At(TABLE, k)) : k \in 0..(n - 1)}
        \cup UNION {around(Midpoint(k)) : k \in 0..(n - 2)}

IdleClamp == freq = 0 /\ note = 0 /\ raised = ""
IdleSegment == seq = <<>> /\ pairs = <<>>
IdleFilter == fpairs = <<>> /\ absorb_i = 0 /\ result = <<>>
IdleVarLen == value = 0 /\ bytes = <<>>
IdleMidi ==
    /\ mpairs = <<>> /\ division = 0 /\ tempo = 0 /\ normalize_note_length = FALSE
    /\ track = <<>> /\ track_k = 0 /\ running_time = 0 /\ buf = <<>> /\ fp = <<>>
IdleRound == length_ticks = 0 /\ round_division = 0 /\ rounded = 0
IdleRun ==
    /\ prog = "" /\ conf = FALSE /\ filters_names = <<>> /\ writer = "" /\ output = ""
    /\ stdout = FALSE /\ wav = <<>> /\ clamped_freqs = <<>> /\ cpairs = <<>>
    /\ dur_den = 1 /\ filter_calls = 0 /\ infile_opened = FALSE
    /\ output_state = "none" /\ writer_pairs = <<>> /\ error = "" /\ message = ""

InitClamp ==
    /\ pc = "call"
    /\ freq \in ClampInputs
    /\ note = 0
    /\ raised = ""
    /\ IdleSegment
    /\ IdleFilter
    /\ IdleVarLen
    /\ IdleMidi
    /\ IdleRound
    /\ IdleRun

Clamp ==
    /\ pc = "call"
    /\ IF clamp_raises(freq)
       THEN raised' = "IndexError" /\ note' = note
       ELSE raised' = "" /\ note' = clamp(freq)
    /\ pc' = "clamped"
    /\ UNCHANGED <<freq, segVars, filterVars, varLenVars, midiVars, roundVars, runVars>>

NextClamp == Clamp

SpecClamp == InitClamp /\ [][NextClamp]_vars

Dist(f, k) == IF f >= At(TABLE, k) THEN f - At(TABLE, k) ELSE At(TABLE, k) - f

\* C7: clamp returns the index of the nearer of the two table entries that
\* bracket the frequency, the upper one on a tie: the exact midpoint of two
\* adjacent entries maps to the upper index, and a frequency equal to a table
\* entry maps to that entry's index.
C7_ClampNearestTiesUp ==
    pc = "clamped" =>
        /\ \A k \in 0..(Len(TABLE) - 1) :
              freq = At(TABLE, k) => raised = "" /\ note = k
        /\ \A k \in 0..(Len(TABLE) - 2) :
              freq = Midpoint(k) => raised = "" /\ note = k + 1
        /\ \A k \in 0..(Len(TABLE) - 2) :
              (At(TABLE, k) <= freq /\ freq < At(TABLE, k + 1)) =>
                  /\ raised = ""
                  /\ note \in {k, k + 1}
                  /\ Dist(freq, note) <= Dist(freq, k)
                  /\ Dist(freq, note) <= Dist(freq, k + 1)
                  /\ (Dist(freq, k) = Dist(freq, k + 1) => note = k + 1)

\* C8: clamp has no error path: for every non-negative frequency it returns
\* a valid index into the table.
C8_ClampTotal ==
    pc = "clamped" =>
        /\ raised = ""
        /\ note \in 0..(Len(TABLE) - 1)

---------------------------------------------------------------------------
(* Run-length segmenter                                                    *)

\* xs.index(False): the 0-based position of the first FALSE of xs.
RECURSIVE index_from(_, _, _)
index_from(xs, v, k) ==
    IF At(xs, k) = v THEN k ELSE index_from(xs, v, k + 1)

index(xs, v) == index_from(xs, v, 0)

all(xs) == \A k \in 1..Len(xs) : xs[k]

\* Faulty variant: counts every occurrence of the first value, not only its first run.
run_length_counts_all(sq) ==
    Cardinality({k \in 1..Len(sq) : sq[k] = At(sq, 0)})

\* Faulty variant: never looks past the first element.
run_length_one(sq) == 1

\* utils.py 49-54: the length of the run of sq[0] at the head of sq.
run_length(sq) ==
    LET val == At(sq, 0)
        xs  == [k \in 1..Len(sq) |-> sq[k] = val]
    IN  IF all(xs) THEN Len(xs) ELSE index(xs, FALSE)

RECURSIVE collect_loop(_, _)
collect_loop(ps, sq) ==
    IF Len(sq) > 0
    THEN LET val   == At(sq, 0)
             count == run_length(sq)
         IN  collect_loop(Append(ps, <<val, count>>),
                          SubSeq(sq, count + 1, Len(sq)))
    ELSE ps

collect_consecutive_values(s) == collect_loop(<<>>, s)

\* gazouilli.py (first version) 53-74: the same scan, the end of the
\* sequence found by the ValueError of xs.index(False).
RECURSIVE gather_loop(_, _)
gather_loop(ps, sq) ==
    IF Len(sq) > 0
    THEN LET n        == At(sq, 0)
             xs       == [k \in 1..Len(sq) |-> sq[k] = n]
             duration == IF \E k \in 1..Len(xs) : xs[k] = FALSE
                         THEN index(xs, FALSE)
                         ELSE Len(xs)
         IN  gather_loop(Append(ps, <<n, duration>>),
                         SubSeq(sq, duration + 1, Len(sq)))
    ELSE ps

gather_notes(s) == gather_loop(<<>>, s)

MaxSeqLen == 5

SegNotes == {0, 60, 62}

SeqsUpTo(S, n) == UNION {[1..m -> S] : m \in 0..n}

InitSegment ==
    /\ pc = "call"
    /\ seq \in SeqsUpTo(SegNotes, MaxSeqLen)
    /\ pairs = <<>>
    /\ IdleClamp
    /\ IdleFilter
    /\ IdleVarLen
    /\ IdleMidi
    /\ IdleRound
    /\ IdleRun

Collect ==
    /\ pc = "call"
    /\ pairs' = collect_consecutive_values(seq)
    /\ pc' = "collected"
    /\ UNCHANGED <<seq, clampVars, filterVars, varLenVars, midiVars, roundVars, runVars>>

Gather ==
    /\ pc = "call"
    /\ pairs' = gather_notes(seq)
    /\ pc' = "gathered"
    /\ UNCHANGED <<seq, clampVars, filterVars, varLenVars, midiVars, roundVars, runVars>>

NextSegment == Collect \/ Gather

SpecSegment == InitSegment /\ [][NextSegment]_vars

SegmentDone == pc \in {"collected", "gathered"}

\* every pair's value repeated count times, in order
RECURSIVE Expand(_)
Expand(ps) ==
    IF ps = <<>> THEN <<>>
    ELSE [k \in 1..At(ps[1], 1) |-> At(ps[1], 0)] \o Expand(Tail(ps))

RECURSIVE SumOf(_, _)
SumOf(ps, field) ==
    IF ps = <<>> THEN 0 ELSE At(ps[1], field) + SumOf(Tail(ps), field)

\* C1: expanding the segmenter's pairs (each value repeated count times, in
\* output order) gives back the input sequence; hence the counts add up to
\* the input's length and the empty input gives the empty output.
C1_SegmenterRoundTrip ==
    SegmentDone =>
        /\ Expand(pairs) = seq
        /\ SumOf(pairs, 1) = Len(seq)
        /\ (seq = <<>> => pairs = <<>>)

C1_Witness ==
    /\ pc = "collected"
    /\ Len(seq) = MaxSeqLen
    /\ Len(pairs) = 3
    /\ At(pairs[1], 0) = At(pairs[3], 0)
    /\ At(pairs[2], 1) >= 2

\* C2: every pair the segmenter emits is a maximal run: its count is at least
\* 1 and no two adjacent pairs carry the same value.
C2_SegmenterMaximalRuns ==
    SegmentDone =>
        /\ \A k \in 1..Len(pairs) : At(pairs[k], 1) >= 1
        /\ \A k \in 1..(Len(pairs) - 1) : At(pairs[k], 0) # At(pairs[k + 1], 0)

C2_Witness ==
    /\ pc = "collected"
    /\ Len(seq) >= 4
    /\ Len(pairs) = 2
    /\ At(pairs[1], 1) >= 2
    /\ At(pairs[2], 1) >= 2

---------------------------------------------------------------------------
(* Filters.  A pair is <<note, duration>>; durations are whole numbers of  *)
(* the unit the thresholds are expressed in.                               *)

weed_duration_threshold == 3

\* Faulty variant: keeps the pairs whose duration equals the threshold.
weed_keeps_equal(ps) ==
    SelectSeq(ps, LAMBDA p : At(p, 1) >= weed_duration_threshold)

\* weed_out_short_notes on pairs whose durations are counted in 1/unit: the
\* duration d of the code is At(p, 1) / unit.
weed_out_short_notes_in(ps, unit) ==
    SelectSeq(ps, LAMBDA p : At(p, 1) > weed_duration_threshold * unit)

weed_out_short_notes(ps) == weed_out_short_notes_in(ps, 1)

duration_threshold == 3

\* Faulty variant: after a merge the scan resumes on the last pair of the triple.
absorb_step_overlapping(ps, j, res) ==
    LET pair == At(ps, j)
        n    == At(pair, 0)
        d    == At(pair, 1)
        keep == IF d > duration_threshold THEN Append(res, pair) ELSE res
    IN  IF j + 2 >= Len(ps)
        THEN <<j + 1, keep>>
        ELSE IF n = At(At(ps, j + 2), 0) /\ At(At(ps, j + 1), 1) < duration_threshold
             THEN <<j + 2, Append(res, <<n, d + At(At(ps, j + 1), 1) + At(At(ps, j + 2), 1)>>)>>
             ELSE <<j + 1, keep>>

\* Faulty variant: merges every triple with equal outer notes, whatever the middle.
absorb_step_any_middle(ps, j, res) ==
    LET pair == At(ps, j)
        n    == At(pair, 0)
        d    == At(pair, 1)
        keep == IF d > duration_threshold THEN Append(res, pair) ELSE res
    IN  IF j + 2 >= Len(ps)
        THEN <<j + 1, keep>>
        ELSE IF n = At(At(ps, j + 2), 0)
             THEN <<j + 3, Append(res, <<n, d + At(At(ps, j + 1), 1) + At(At(ps, j + 2), 1)>>)>>
             ELSE <<j + 1, keep>>

\* One iteration of the while loop of absorb_short_notes at index j with the
\* pairs kept so far: the next index and the next result.  Reading
\* pairs[j + 1] or pairs[j + 2] past the end raises IndexError, which the
\* loop handles by the keep-if-longer rule alone.
\* The durations are counted in 1/unit: d of the code is At(pair, 1) / unit.
absorb_step_in(ps, j, res, unit) ==
    LET pair == At(ps, j)
        n    == At(pair, 0)
        d    == At(pair, 1)
        keep == IF d > duration_threshold * unit THEN Append(res, pair) ELSE res
    IN  IF j + 2 >= Len(ps)
        THEN <<j + 1, keep>>
        ELSE LET d1 == At(At(ps, j + 1), 1)
                 n2 == At(At(ps, j + 2), 0)
                 d2 == At(At(ps, j + 2), 1)
             IN  IF n = n2 /\ d1 < duration_threshold * unit
                 THEN <<j + 3, Append(res, <<n, d + d1 + d2>>)>>
                 ELSE <<j + 1, keep>>

absorb_step(ps, j, res) == absorb_step_in(ps, j, res, 1)

RECURSIVE absorb_loop(_, _, _)
absorb_loop(ps, j, res) ==
    IF j < Len(ps)
    THEN LET nxt == absorb_step(ps, j, res)
         IN  absorb_loop(ps, nxt[1], nxt[2])
    ELSE res

absorb_short_notes(ps) == absorb_loop(ps, 0, <<>>)

RECURSIVE absorb_loop_in(_, _, _, _)
absorb_loop_in(ps, j, res, unit) ==
    IF j < Len(ps)
    THEN LET nxt == absorb_step_in(ps, j, res, unit)
         IN  absorb_loop_in(ps, nxt[1], nxt[2], unit)
    ELSE res

absorb_short_notes_in(ps, unit) == absorb_loop_in(ps, 0, <<>>, unit)

\* durations_in_seconds: d * seconds_per_window, with seconds_per_window =
\* window_size / framerate.  On pairs counted in 1/unit the result is counted
\* in 1/(unit * framerate).
durations_in_seconds(ps, window_size) ==
    [k \in 1..Len(ps) |-> <<At(ps[k], 0), At(ps[k], 1) * window_size>>]

MaxPairs == 4

MaxDuration == 4

FilterNotes == {95, 96}

AbsorbExample == << <<95, 2>>, <<96, 1>>, <<95, 8>>, <<92, 6>> >>

WeedExample == << <<60, 1>>, <<62, 5>> >>

\* The filters are public functions (filters.__all__) applied in any order
\* the caller configures, so every list of pairs is an input.
FilterInputs ==
    SeqsUpTo(FilterNotes \X (1..MaxDuration), MaxPairs)
        \cup {AbsorbExample, WeedExample}

InitFilter ==
    /\ pc \in {"weed", "absorb"}
    /\ fpairs \in FilterInputs
    /\ absorb_i = 0
    /\ result = <<>>
    /\ IdleClamp
    /\ IdleSegment
    /\ IdleVarLen
    /\ IdleMidi
    /\ IdleRound
    /\ IdleRun

Weed ==
    /\ pc = "weed"
    /\ result' = weed_out_short_notes(fpairs)
    /\ pc' = "weeded"
    /\ UNCHANGED <<fpairs, absorb_i, clampVars, segVars, varLenVars, midiVars, roundVars, runVars>>

AbsorbStep ==
    /\ pc = "absorb"
    /\ absorb_i < Len(fpairs)
    /\ LET nxt == absorb_step(fpairs, absorb_i, result)
       IN  absorb_i' = nxt[1] /\ result' = nxt[2]
    /\ UNCHANGED <<pc, fpairs, clampVars, segVars, varLenVars, midiVars, roundVars, runVars>>

AbsorbReturn ==
    /\ pc = "absorb"
    /\ ~(absorb_i < Len(fpairs))
    /\ pc' = "absorbed"
    /\ UNCHANGED <<fpairs, absorb_i, result, clampVars, segVars, varLenVars, midiVars, roundVars, runVars>>

NextFilter == Weed \/ AbsorbStep \/ AbsorbReturn

SpecFilter == InitFilter /\ [][NextFilter]_vars

Note(p) == At(p, 0)
Duration(p) == At(p, 1)

\* The scan as the specification words it, on the pairs that remain.
RECURSIVE GreedyScan(_)
GreedyScan(ps) ==
    IF ps = <<>> THEN <<>>
    ELSE IF /\ Len(ps) >= 3
            /\ Note(ps[1]) = Note(ps[3])
            /\ Duration(ps[2]) < duration_threshold
         THEN << <<Note(ps[1]), Duration(ps[1]) + Duration(ps[2]) + Duration(ps[3])>> >>
                  \o GreedyScan(SubSeq(ps, 4, Len(ps)))
         ELSE (IF Duration(ps[1]) > duration_threshold THEN <<ps[1]>> ELSE <<>>)
                  \o GreedyScan(Tail(ps))

\* the triple of pairs starting at position k (1-based) qualifies for a merge
QualifyingTriple(ps, k) ==
    /\ k >= 1
    /\ k + 2 <= Len(ps)
    /\ Note(ps[k]) = Note(ps[k + 2])
    /\ Duration(ps[k + 1]) < duration_threshold

\* C3: absorb_short_notes returns the result of the left-to-right,
\* non-overlapping greedy scan (merge a qualifying triple and advance by
\* three, otherwise keep the head pair only if longer than the threshold and
\* advance by one); [(95,2),(96,1),(95,8),(92,6)] gives [(95,11),(92,6)].
C3_AbsorbGreedyScan ==
    pc = "absorbed" =>
        /\ result = GreedyScan(fpairs)
        /\ (fpairs = AbsorbExample => result = << <<95, 11>>, <<92, 6>> >>)

C3_Witness ==
    /\ pc = "absorbed"
    /\ Len(fpairs) = 4
    /\ \A k \in 1..3 : Note(fpairs[k]) # Note(fpairs[k + 1])
    /\ QualifyingTriple(fpairs, 1)
    /\ QualifyingTriple(fpairs, 2)
    /\ result = << <<Note(fpairs[1]),
                     Duration(fpairs[1]) + Duration(fpairs[2]) + Duration(fpairs[3])>> >>

\* C4: a sequence in which every duration is at least the threshold
\* (durations equal to the threshold included) is returned unchanged by
\* absorb_short_notes.
C4_AbsorbNoShortUnchanged ==
    (pc = "absorbed" /\ \A k \in 1..Len(fpairs) : Duration(fpairs[k]) >= duration_threshold)
        => result = fpairs

\* the pair at position k (1-based) lies between two pairs of equal note
Sandwiched(ps, k) ==
    /\ 1 < k
    /\ k < Len(ps)
    /\ Note(ps[k - 1]) = Note(ps[k + 1])

\* An iteration that appends to result builds the appended pair from the
\* input pairs it consumes, positions absorb_i + 1 .. absorb_i' (1-based).
Contributes(k) ==
    /\ pc = "absorb"
    /\ result' # result
    /\ k \in (absorb_i + 1)..absorb_i'

\* C5 as stated: a pair of duration 1 that is not sandwiched between two
\* pairs of equal note contributes to no output pair, wherever it sits.
C5_UnsandwichedShortDropped ==
    [][\A k \in 1..Len(fpairs) :
          (Duration(fpairs[k]) = 1 /\ ~Sandwiched(fpairs, k)) => ~Contributes(k)]_vars

\* C5 amended: a pair of duration 1 that is not sandwiched between two pairs
\* of equal note contributes to no output pair, except as the first or the
\* last pair of a triple the scan merges (outer notes equal, middle pair
\* below the threshold), whose merged pair includes its duration.
C5_UnsandwichedShortDroppedUnlessMerged ==
    [][\A k \in 1..Len(fpairs) :
          (Duration(fpairs[k]) = 1 /\ ~Sandwiched(fpairs, k) /\ Contributes(k)) =>
              /\ absorb_i' = absorb_i + 3
              /\ QualifyingTriple(fpairs, absorb_i + 1)
              /\ k \in {absorb_i + 1, absorb_i + 3}
              /\ result' = Append(result,
                     <<Note(fpairs[absorb_i + 1]),
                       Duration(fpairs[absorb_i + 1]) + Duration(fpairs[absorb_i + 2])
                           + Duration(fpairs[absorb_i + 3])>>)]_vars

C5_Witness ==
    /\ pc = "absorbed"
    /\ Len(fpairs) = 4
    /\ \A k \in 1..3 : Note(fpairs[k]) # Note(fpairs[k + 1])
    /\ Duration(fpairs[1]) = 1
    /\ ~Sandwiched(fpairs, 1)
    /\ ~QualifyingTriple(fpairs, 1)
    /\ QualifyingTriple(fpairs, 2)
    /\ Len(result) = 1
    /\ Duration(result[1]) = Duration(fpairs[2]) + Duration(fpairs[3]) + Duration(fpairs[4])

\* positions of the input pairs longer than the weed threshold
LongPositions(ps) == {k \in 1..Len(ps) : Duration(ps[k]) > weed_duration_threshold}

\* the j-th smallest element of the set of positions K
Nth(K, j) == CHOOSE k \in K : Cardinality({m \in K : m <= k}) = j

---------------------------------------------------------------------------
(* MIDI variable-length quantity.  The bit operations of var_len are       *)
(* written with the arithmetic they stand for: x & 0x7f is x % 128,        *)
(* x >> 7 is x \div 128, x << 8 is x * 256, x & 0x80 tests bit 7.          *)

Bit7(x) == (x \div 128) % 2 = 1

\* x | 0x80
Or80(x) == IF Bit7(x) THEN x ELSE x + 128

\* Faulty variant: the continuation bit is not set on the groups pushed into buf.
RECURSIVE var_len_pack_no_flag(_, _)
var_len_pack_no_flag(vbuf, v) ==
    IF v # 0
    THEN var_len_pack_no_flag((vbuf * 256) + (v % 128), v \div 128)
    ELSE vbuf

\* the first loop of var_len: pushes the remaining 7-bit groups of v into buf
RECURSIVE var_len_pack(_, _)
var_len_pack(vbuf, v) ==
    IF v # 0
    THEN var_len_pack(Or80(vbuf * 256) + (v % 128), v \div 128)
    ELSE vbuf

\* the second loop of var_len: pops the bytes of buf, lowest first
RECURSIVE var_len_emit(_, _)
var_len_emit(a, vbuf) ==
    LET a2 == Append(a, vbuf % 256)
    IN  IF Bit7(vbuf) THEN var_len_emit(a2, vbuf \div 256) ELSE a2

var_len(v) == var_len_emit(<<>>, var_len_pack(v % 128, v \div 128))

MaxValue == 300

\* 128, 128^2, 128^3 and their neighbours, and the largest four-byte quantity
VarLenInputs ==
    (0..MaxValue)
        \cup {127, 128, 129, 255, 256, 8192, 16255, 16383, 16384, 16385, 65535,
              2097151, 2097152, 2097153, 134217728, 268435455}

InitVarLen ==
    /\ pc = "var_len"
    /\ value \in VarLenInputs
    /\ bytes = <<>>
    /\ IdleClamp
    /\ IdleSegment
    /\ IdleFilter
    /\ IdleMidi
    /\ IdleRound
    /\ IdleRun

VarLen ==
    /\ pc = "var_len"
    /\ bytes' = var_len(value)
    /\ pc' = "encoded"
    /\ UNCHANGED <<value, clampVars, segVars, filterVars, midiVars, roundVars, runVars>>

NextVarLen == VarLen

SpecVarLen == InitVarLen /\ [][NextVarLen]_vars

\* a MIDI reader's decoding of a variable-length quantity
RECURSIVE DecodeVarLen(_, _)
DecodeVarLen(bs, acc) ==
    IF bs = <<>> THEN acc
    ELSE DecodeVarLen(Tail(bs), acc * 128 + (bs[1] % 128))

RECURSIVE Pow128(_)
Pow128(n) == IF n = 0 THEN 1 ELSE 128 * Pow128(n - 1)

\* C9: var_len(v) is the MIDI variable-length quantity of v: the 7-bit groups
\* of v, most significant first, no leading zero group, the high bit set on
\* every byte but the last, so that decoding gives v; 0 -> 00, 127 -> 7F,
\* 128 -> 81 00, 16383 -> FF 7F.
C9_VarLenIsVLQ ==
    pc = "encoded" =>
        LET n == Len(bytes)
        IN  /\ n >= 1
            /\ \A j \in 1..n : bytes[j] \in 0..255
            /\ \A j \in 1..n : bytes[j] % 128 = (value \div Pow128(n - j)) % 128
            /\ \A j \in 1..(n - 1) : bytes[j] >= 128
            /\ bytes[n] < 128
            /\ (n > 1 => bytes[1] # 128)
            /\ DecodeVarLen(bytes, 0) = value
            /\ (value = 0 => bytes = <<0>>)
            /\ (value = 127 => bytes = <<127>>)
            /\ (value = 128 => bytes = <<129, 0>>)
            /\ (value = 16383 => bytes = <<255, 127>>)

C9_Witness ==
    /\ pc = "encoded"
    /\ value = 2097152
    /\ bytes = <<129, 128, 128, 0>>

---------------------------------------------------------------------------
(* MIDI writer.  Durations are exact rationals counted in milliseconds; a  *)
(* track entry is <<time, event, note>>; buf and fp are byte sequences.    *)

note_on == 144

note_off == 128

velocity == 127

\* Faulty variant: an if in place of the while, one trailing silence removed.
strip_end_once(ps, end) ==
    IF end # 0 /\ At(At(ps, end - 1), 0) = 0 THEN end - 1 ELSE end

RECURSIVE strip_end(_, _)
strip_end(ps, end) ==
    IF end # 0 /\ At(At(ps, end - 1), 0) = 0
    THEN strip_end(ps, end - 1)
    ELSE end

strip_trailing_silence(ps) == SubSeq(ps, 1, strip_end(ps, Len(ps)))

\* integer division and remainder of Python 2 on non-negative integers
round_to_closest_sixteenth_note(ticks, dv) ==
    LET t         == dv \div 4
        num       == ticks \div t
        remainder == ticks % t
    IN  (IF remainder > t \div 2 THEN num + 1 ELSE num) * t

\* int(duration * division * (1e6 / tempo)) for a duration of ms milliseconds
length_in_ticks(ms, dv, tp) == (ms * dv * 1000) \div tp

\* Faulty variant: the note-off entry is appended before the note-on entry.
midi_track_off_first(ps, dv, tp, norm) ==
    LET cleaned_pairs == strip_trailing_silence(ps)
        ticks(p) ==
            LET raw == length_in_ticks(At(p, 1), dv, tp)
            IN  IF norm THEN round_to_closest_sixteenth_note(raw, dv) ELSE raw
        both(p) == << <<ticks(p), note_off, At(p, 0)>>, <<0, note_on, At(p, 0)>> >>
        F[n \in 0..Len(cleaned_pairs)] ==
            IF n = 0 THEN <<>> ELSE F[n - 1] \o both(cleaned_pairs[n])
    IN  F[Len(cleaned_pairs)]

\* Midi.__init__: self.track
midi_track(ps, dv, tp, norm) ==
    LET cleaned_pairs == strip_trailing_silence(ps)
        ticks(p) ==
            LET raw == length_in_ticks(At(p, 1), dv, tp)
            IN  IF norm THEN round_to_closest_sixteenth_note(raw, dv) ELSE raw
        both(p) == << <<0, note_on, At(p, 0)>>, <<ticks(p), note_off, At(p, 0)>> >>
        F[n \in 0..Len(cleaned_pairs)] ==
            IF n = 0 THEN <<>> ELSE F[n - 1] \o both(cleaned_pairs[n])
    IN  F[Len(cleaned_pairs)]

get_bytes_for_tempo(tp) ==
    << (tp \div 65536) % 256, (tp \div 256) % 256, tp % 256 >>

\* Faulty variant: the four bytes in little-endian order ('<i').
pack_i_little_endian(n) ==
    << n % 256, (n \div 256) % 256, (n \div 65536) % 256, (n \div 16777216) % 256 >>

\* struct.pack('>i', n) and struct.pack('>H', n) for 0 <= n
pack_i(n) == << (n \div 16777216) % 256, (n \div 65536) % 256, (n \div 256) % 256, n % 256 >>
pack_H(n) == << (n \div 256) % 256, n % 256 >>

\* Faulty variant: the offset of the skipped silences is not added to the delta-time.
write_event_drops_offset(b, rt, ev) ==
    IF At(ev, 2) = 0
    THEN <<b, rt + At(ev, 0)>>
    ELSE <<b \o var_len(At(ev, 0)) \o <<At(ev, 1), At(ev, 2), velocity>>, 0>>

\* One iteration of the note-event loop of Midi.write on the track entry ev:
\* the next buf and the next running_time.
write_event(b, rt, ev) ==
    LET time  == At(ev, 0)
        event == At(ev, 1)
        nt    == At(ev, 2)
    IN  IF nt = 0
        THEN <<b, rt + time>>
        ELSE <<b \o var_len(time + rt) \o <<event, nt, velocity>>, 0>>

MaxMidiPairs == 4

MidiNotes == {0, 60, 62}

MidiDurations == {93, 1000}

MidiDivisions == {96, 100}

MidiTempos == {500000}

InitMidi ==
    /\ pc = "construct"
    /\ mpairs \in SeqsUpTo(MidiNotes \X MidiDurations, MaxMidiPairs)
    /\ division \in MidiDivisions
    /\ tempo \in MidiTempos
    /\ normalize_note_length \in BOOLEAN
    /\ track = <<>>
    /\ track_k = 0
    /\ running_time = 0
    /\ buf = <<>>
    /\ fp = <<>>
    /\ IdleClamp
    /\ IdleSegment
    /\ IdleFilter
    /\ IdleVarLen
    /\ IdleRound
    /\ IdleRun

otherVars == <<clampVars, segVars, filterVars, varLenVars, roundVars, runVars>>

MidiConstruct ==
    /\ pc = "construct"
    /\ track' = midi_track(mpairs, division, tempo, normalize_note_length)
    /\ pc' = "write"
    /\ UNCHANGED <<midiArgs, track_k, running_time, buf, fp, otherVars>>

\* write, up to the note-event loop: the set-tempo event
WriteTempo ==
    /\ pc = "write"
    /\ buf' = <<0>> \o <<255, 81, 3>> \o get_bytes_for_tempo(tempo)
    /\ running_time' = 0
    /\ track_k' = 0
    /\ pc' = "events"
    /\ UNCHANGED <<midiArgs, track, fp, otherVars>>

WriteEvent ==
    /\ pc = "events"
    /\ track_k < Len(track)
    /\ LET nxt == write_event(buf, running_time, At(track, track_k))
       IN  buf' = nxt[1] /\ running_time' = nxt[2]
    /\ track_k' = track_k + 1
    /\ UNCHANGED <<pc, midiArgs, track, fp, otherVars>>

\* write, after the loop: the end-of-track event, then header and track
WriteOut ==
    /\ pc = "events"
    /\ track_k = Len(track)
    /\ LET body == buf \o <<0, 255, 47, 0>>
       IN  /\ buf' = body
           /\ fp' = <<77, 84, 104, 100>>
                      \o pack_i(6) \o pack_H(0) \o pack_H(1) \o pack_H(division)
                      \o <<77, 84, 114, 107>>
                      \o pack_i(Len(body))
                      \o body
    /\ pc' = "written"
    /\ UNCHANGED <<midiArgs, track, track_k, running_time, otherVars>>

NextMidi == MidiConstruct \/ WriteTempo \/ WriteEvent \/ WriteOut

SpecMidi == InitMidi /\ [][NextMidi]_vars

\* A MIDI reader: the variable-length quantity starting at position p of the
\* byte sequence b, as <<value, position after it>>.
RECURSIVE ReadVarLen(_, _, _)
ReadVarLen(b, p, acc) ==
    IF p > Len(b) THEN <<acc, p>>
    ELSE IF b[p] >= 128
         THEN ReadVarLen(b, p + 1, acc * 128 + (b[p] % 128))
         ELSE <<acc * 128 + b[p], p + 1>>

\* A MIDI reader: the channel events <<delta, status, note>> of a track body
\* from position p on, up to the first meta event or the end of the bytes.
RECURSIVE ReadEvents(_, _, _)
ReadEvents(b, p, acc) ==
    IF p > Len(b) THEN acc
    ELSE LET d == ReadVarLen(b, p, 0)
             q == d[2]
         IN  IF q + 2 > Len(b) \/ b[q] = 255
             THEN acc
             ELSE ReadEvents(b, q + 3, Append(acc, <<d[1], b[q], b[q + 1]>>))

\* the note events of the body, which follow the 7 bytes of the tempo event
WrittenEvents(b) == ReadEvents(b, 8, <<>>)

RECURSIVE SumDeltas(_)
SumDeltas(es) == IF es = <<>> THEN 0 ELSE es[1][1] + SumDeltas(Tail(es))

\* ticks of the silent track entries that immediately precede position j
\* (1-based) of the track
RECURSIVE SilenceBefore(_, _)
SilenceBefore(tr, j) ==
    IF j > 1 /\ tr[j - 1][3] = 0
    THEN tr[j - 1][1] + SilenceBefore(tr, j - 1)
    ELSE 0

\* the events a reader must find once the first n track entries are written
RECURSIVE ExpectedEvents(_, _)
ExpectedEvents(tr, n) ==
    IF n = 0 THEN <<>>
    ELSE IF tr[n][3] = 0
         THEN ExpectedEvents(tr, n - 1)
         ELSE Append(ExpectedEvents(tr, n - 1),
                     <<tr[n][1] + SilenceBefore(tr, n), tr[n][2], tr[n][3]>>)

\* the tick length Midi.__init__ gives a pair
TickLength(p) ==
    LET raw == length_in_ticks(Duration(p), division, tempo)
    IN  IF normalize_note_length
        THEN round_to_closest_sixteenth_note(raw, division)
        ELSE raw

RECURSIVE SumTicks(_)
SumTicks(ps) == IF ps = <<>> THEN 0 ELSE TickLength(ps[1]) + SumTicks(Tail(ps))

---------------------------------------------------------------------------
(* Framing, tick lengths and order of the MIDI stream                      *)

\* the number of bytes of the variable-length quantity of d
VlqLength(d) == IF d < 128 THEN 1 ELSE IF d < 16384 THEN 2 ELSE IF d < 2097152 THEN 3 ELSE 4

RECURSIVE SumEventBytes(_)
SumEventBytes(es) ==
    IF es = <<>> THEN 0 ELSE VlqLength(es[1][1]) + 3 + SumEventBytes(Tail(es))

\* the big-endian number held by the bytes bs
RECURSIVE BigEndian(_, _)
BigEndian(bs, acc) ==
    IF bs = <<>> THEN acc ELSE BigEndian(Tail(bs), acc * 256 + bs[1])

Nearest(a, b) == (2 * a + b) \div (2 * b)

\* C15: the tick length stored in the note-off entry of every kept pair is
\* round(duration_seconds * division * 1000000 / tempo), the nearest integer
\* and not the truncation of the product.
C15_TicksRoundedToNearest ==
    (pc \in {"write", "events", "written"} /\ ~normalize_note_length) =>
        \A k \in 1..(Len(track) \div 2) :
            track[2 * k][1] = Nearest(Duration(mpairs[k]) * division * 1000, tempo)

\* C17: strip_trailing_silence keeps the longest prefix of the pairs whose
\* last pair is not silence (nothing if every pair is silence) and removes or
\* changes no other pair, so the track never ends with silence time pending
\* before the end-of-track event, whose delta-time is 0.
C17_TrailingSilenceStripped ==
    pc \in {"write", "events", "written"} =>
        LET n == Len(track) \div 2
        IN  /\ Len(track) = 2 * n
            /\ n <= Len(mpairs)
            /\ \A k \in 1..n :
                  /\ track[2 * k - 1] = <<0, note_on, Note(mpairs[k])>>
                  /\ track[2 * k] = <<TickLength(mpairs[k]), note_off, Note(mpairs[k])>>
            /\ (n > 0 => Note(mpairs[n]) # 0)
            /\ \A k \in (n + 1)..Len(mpairs) : Note(mpairs[k]) = 0
            /\ (pc = "events" /\ track_k = Len(track) => running_time = 0)
            /\ (pc = "written" =>
                   /\ running_time = 0
                   /\ SubSeq(buf, Len(buf) - 3, Len(buf)) = <<0, 255, 47, 0>>)

C17_Witness ==
    /\ pc = "written"
    /\ Len(mpairs) = 4
    /\ Note(mpairs[1]) = 0
    /\ Note(mpairs[2]) # 0
    /\ Note(mpairs[3]) = 0
    /\ Note(mpairs[4]) = 0
    /\ Len(track) = 4
    /\ Len(WrittenEvents(buf)) = 2

\* positions of the pairs that are not silence
SoundingPositions(ps) == {k \in 1..Len(ps) : Note(ps[k]) # 0}

---------------------------------------------------------------------------
(* round_to_closest_sixteenth_note on its own                              *)

MaxTicks == 60

MaxSixteenth == 25

\* the divisions that are positive multiples of 4
RoundDivisions == {4 * q : q \in 1..MaxSixteenth}

IdleButRound ==
    /\ IdleClamp /\ IdleSegment /\ IdleFilter /\ IdleVarLen /\ IdleMidi /\ IdleRun

InitRound ==
    /\ pc = "round"
    /\ length_ticks \in 0..MaxTicks
    /\ round_division \in RoundDivisions
    /\ rounded = 0
    /\ IdleButRound

Round ==
    /\ pc = "round"
    /\ rounded' = round_to_closest_sixteenth_note(length_ticks, round_division)
    /\ pc' = "rounded"
    /\ UNCHANGED <<length_ticks, round_division, clampVars, segVars, filterVars,
                   varLenVars, midiVars, runVars>>

\* the caller goes on with the next pair
RoundNext ==
    /\ pc = "rounded"
    /\ \E l \in 0..MaxTicks : length_ticks' = l
    /\ pc' = "round"
    /\ UNCHANGED <<round_division, rounded, clampVars, segVars, filterVars,
                   varLenVars, midiVars, runVars>>

NextRound == Round \/ RoundNext

SpecRound == InitRound /\ [][NextRound]_vars

Abs(x) == IF x < 0 THEN -x ELSE x

\* C16: for every tick count L >= 0 and every division that is a positive
\* multiple of 4, round_to_closest_sixteenth_note(L, division) is the multiple
\* of t = division / 4 nearest to L, and the upper one of the two when L is
\* exactly halfway between two multiples of t.
C16_NearestSixteenthHalfUp ==
    pc = "rounded" =>
        LET t     == round_division \div 4
            L     == length_ticks
            lower == L - (L % t)
        IN  /\ rounded % t = 0
            /\ \A m \in {lower, lower + t} : Abs(rounded - L) <= Abs(m - L)
            /\ (2 * (L % t) = t => rounded = lower + t)

---------------------------------------------------------------------------
(* The programs: configuration, reading, filtering, writing.               *)
(*                                                                         *)
(* "package" is gazouilli/gazouilli.py run as a script, "cli" is           *)
(* gazouilli/cli.py run(), "legacy" is convert() of the top-level          *)
(* gazouilli.py.  The DFT of a window and clamp (above) give one note      *)
(* index per window; a run takes these indices as its input,               *)
(* clamped_freqs.  A duration in the pipeline is the rational              *)
(* At(pair, 1) / dur_den: dur_den is 1 while durations count windows.      *)
(***************************************************************************)

\* filters.__all__
filters_all == {"durations_in_seconds", "weed_out_short_notes", "absorb_short_notes"}

\* the names getattr(filters, name) finds: the functions and the attributes
\* every module has ("__doc__" stands for them)
filters_attributes == filters_all \cup {"__doc__"}

VALID_WRITERS == {"debug", "floppy", "json", "midi"}

\* the writers that implement get_output_filename
writers_naming_output == {"json", "midi"}

WINDOW_SIZE == 4096

MaxChain == 3

RunFilterNames == filters_all \cup {"__doc__", "nonesuch"}

\* the sequences of at most n distinct elements of S
Chains(S, n) ==
    {c \in SeqsUpTo(S, n) : \A i, j \in 1..Len(c) : i # j => c[i] # c[j]}

RunWriters == {"", "midi", "debug", "bogus"}

RunOutputs == {"", "out.mid"}

ValidWav ==
    [readable |-> TRUE, nchannels |-> 1, sampwidth |-> 2, framerate |-> 44100,
     comptype |-> "NONE"]

RunWavs ==
    {ValidWav,
     [ValidWav EXCEPT !.readable = FALSE],
     [ValidWav EXCEPT !.nchannels = 2],
     [ValidWav EXCEPT !.sampwidth = 1],
     [ValidWav EXCEPT !.framerate = 48000],
     [ValidWav EXCEPT !.comptype = "ULAW"]}

\* three windows of note 60, two silent windows, four windows of note 60
ExampleWindows == <<60, 60, 60, 0, 0, 60, 60, 60, 60>>

RunWindows == {ExampleWindows, <<62, 62, 62, 62, 0>>}

IdleButRun ==
    /\ IdleClamp /\ IdleSegment /\ IdleFilter /\ IdleVarLen /\ IdleMidi /\ IdleRound

RunStart ==
    /\ wav \in RunWavs
    /\ clamped_freqs \in RunWindows
    /\ output \in RunOutputs
    /\ cpairs = <<>>
    /\ dur_den = 1
    /\ filter_calls = 0
    /\ infile_opened = FALSE
    /\ output_state = "none"
    /\ writer_pairs = <<>>
    /\ error = ""
    /\ message = ""
    /\ IdleButRun

\* the script and the console entry point start in their main code; the
\* legacy convert() is called with filter functions and a writer name
InitRun ==
    /\ \/ /\ prog \in {"package", "cli"}
          /\ pc = "main"
          /\ conf \in BOOLEAN
          /\ filters_names \in Chains(RunFilterNames, MaxChain)
          /\ writer \in RunWriters
          /\ stdout \in BOOLEAN
       \/ /\ prog = "legacy"
          /\ pc = "convert"
          /\ conf = FALSE
          /\ filters_names \in Chains(filters_all, MaxChain)
          /\ writer = "midi"
          /\ stdout = FALSE
    /\ RunStart

\* The options are read and checked: <<exception, label>>, <<"", "">> if
\* convert is reached.  argparse rejects a filter or writer outside its
\* choices; the names of a JSON file only go through getattr.
configure(from_conf, names, w, out, to_stdout) ==
    IF /\ ~from_conf
       /\ \/ \E k \in 1..Len(names) : names[k] \notin filters_all
          \/ w \notin VALID_WRITERS \cup {""}
    THEN <<"SystemExit", "invalid choice">>
    ELSE IF \E k \in 1..Len(names) : names[k] \notin filters_attributes
    THEN <<"AttributeError", "">>
    ELSE IF w = "" \/ w \notin VALID_WRITERS
    THEN <<"SystemExit", "Invalid writer specified. Valid choices are:">>
    ELSE IF to_stdout /\ out # ""
    THEN <<"SystemExit", "Cannot specify both outfile and stdout options">>
    ELSE <<"", "">>

\* gazouilli/gazouilli.py run as a script, up to the call of convert
PackageMain ==
    /\ pc = "main"
    /\ prog = "package"
    /\ LET c == configure(conf, filters_names, writer, output, stdout)
       IN  /\ error' = c[1]
           /\ message' = c[2]
           /\ pc' = IF c[1] = "" THEN "convert" ELSE "exit"
    /\ UNCHANGED <<runConf, cpairs, dur_den, filter_calls, infile_opened, output_state,
                   writer_pairs, otherRunVars>>

\* cli.run, up to the call of convert
CliRun ==
    /\ pc = "main"
    /\ prog = "cli"
    /\ LET c == configure(conf, filters_names, writer, output, stdout)
       IN  /\ error' = c[1]
           /\ message' = c[2]
           /\ pc' = IF c[1] = "" THEN "convert" ELSE "exit"
    /\ UNCHANGED <<runConf, cpairs, dur_den, filter_calls, infile_opened, output_state,
                   writer_pairs, otherRunVars>>

\* read_wave: wave.open and the checks of the parameters it returns; the
\* label of the error raised, "" if none
wave_error(w) ==
    IF ~w.readable THEN "Cannot read WAV file."
    ELSE IF w.nchannels # 1 THEN "Only mono files are supported at the moment"
    ELSE IF w.sampwidth # 2 THEN "Only 16-bit files are supported at the moment"
    ELSE IF ~(44000 <= w.framerate /\ w.framerate <= 44100)
    THEN "Only 44kHz files are supported at the moment"
    ELSE IF w.comptype # "NONE" THEN "Only uncompressed files are supported"
    ELSE ""

\* Calling what getattr(filters, name) returned with nargs arguments raises
\* TypeError unless it is a function, all of which take (pairs, params).
call_raises(name, nargs) == name \notin filters_all \/ nargs # 2

\* fn(pairs, params) for the filter called name, on pairs counted in 1/unit:
\* the pairs returned and their unit
call_filter(name, ps, unit, framerate) ==
    IF name = "durations_in_seconds"
    THEN <<durations_in_seconds(ps, WINDOW_SIZE), unit * framerate>>
    ELSE IF name = "weed_out_short_notes"
    THEN <<weed_out_short_notes_in(ps, unit), unit>>
    ELSE <<absorb_short_notes_in(ps, unit), unit>>

\* gazouilli/gazouilli.py convert: pairs = read_wave(infile)
PackageReadWave ==
    /\ pc = "convert"
    /\ prog = "package"
    /\ infile_opened' = wav.readable
    /\ IF wave_error(wav) # ""
       THEN /\ error' = "GazouilliException"
            /\ message' = wave_error(wav)
            /\ pc' = "exit"
            /\ UNCHANGED <<cpairs, dur_den>>
       ELSE /\ cpairs' = durations_in_seconds(collect_consecutive_values(clamped_freqs),
                                              WINDOW_SIZE)
            /\ dur_den' = wav.framerate
            /\ pc' = "filters"
            /\ UNCHANGED <<error, message>>
    /\ UNCHANGED <<runConf, filter_calls, output_state, writer_pairs, otherRunVars>>

\* gazouilli/gazouilli.py convert: one iteration of  for fn in filters_to_use:
\* pairs = fn(pairs)
PackageFilter ==
    /\ pc = "filters"
    /\ prog = "package"
    /\ filter_calls < Len(filters_names)
    /\ filter_calls' = filter_calls + 1
    /\ LET name == At(filters_names, filter_calls)
       IN  IF call_raises(name, 1)
           THEN /\ error' = "TypeError"
                /\ pc' = "exit"
                /\ UNCHANGED <<cpairs, dur_den>>
           ELSE /\ cpairs' = call_filter(name, cpairs, dur_den, wav.framerate)[1]
                /\ dur_den' = call_filter(name, cpairs, dur_den, wav.framerate)[2]
                /\ UNCHANGED <<pc, error>>
    /\ UNCHANGED <<runConf, infile_opened, output_state, writer_pairs, message,
                   otherRunVars>>

\* gazouilli/gazouilli.py convert, after the loop: the writer is constructed,
\* the output chosen and opened, written and closed
PackageWrite ==
    /\ pc = "filters"
    /\ prog = "package"
    /\ filter_calls = Len(filters_names)
    /\ writer_pairs' = cpairs
    /\ IF ~stdout /\ output = "" /\ writer \notin writers_naming_output
       THEN /\ error' = "GazouilliException"
            /\ message' = "Must specify at least one of output or stdout option with this writer"
            /\ pc' = "exit"
            /\ UNCHANGED output_state
       ELSE /\ output_state' = "complete"
            /\ pc' = "done"
            /\ UNCHANGED <<error, message>>
    /\ UNCHANGED <<runConf, cpairs, dur_den, filter_calls, infile_opened, otherRunVars>>

\* cli.convert, up to the reading of the input: the writer is looked up and
\* the output chosen and opened
CliOpen ==
    /\ pc = "convert"
    /\ prog = "cli"
    /\ IF stdout
       THEN /\ pc' = "read"
            /\ UNCHANGED <<output_state, error, message>>
       ELSE IF output = "" /\ writer \notin writers_naming_output
       THEN /\ error' = "GazouilliException"
            /\ message' = "Must specify at least one of output or stdout option with this writer"
            /\ pc' = "exit"
            /\ UNCHANGED output_state
       ELSE /\ output_state' = "opened"
            /\ pc' = "read"
            /\ UNCHANGED <<error, message>>
    /\ UNCHANGED <<runConf, cpairs, dur_den, filter_calls, infile_opened, writer_pairs,
                   otherRunVars>>

\* cli.convert: pairs = WaveReader().read(infile).  The reader checks the
\* input contract and returns the (note, window-count) pairs of the segmenter.
CliRead ==
    /\ pc = "read"
    /\ infile_opened' = wav.readable
    /\ IF wave_error(wav) # ""
       THEN /\ error' = "GazouilliException"
            /\ message' = wave_error(wav)
            /\ pc' = "exit"
            /\ UNCHANGED cpairs
       ELSE /\ cpairs' = collect_consecutive_values(clamped_freqs)
            /\ pc' = "filters"
            /\ UNCHANGED <<error, message>>
    /\ UNCHANGED <<runConf, dur_den, filter_calls, output_state, writer_pairs,
                   otherRunVars>>

\* cli.convert: Gazouilli(...).convert(pairs, apply_filters=True), one filter:
\* the filters are applied left to right, each to the output of the one before
CliFilter ==
    /\ pc = "filters"
    /\ prog = "cli"
    /\ filter_calls < Len(filters_names)
    /\ filter_calls' = filter_calls + 1
    /\ LET name == At(filters_names, filter_calls)
       IN  IF call_raises(name, 2)
           THEN /\ error' = "TypeError"
                /\ pc' = "exit"
                /\ UNCHANGED <<cpairs, dur_den>>
           ELSE /\ cpairs' = call_filter(name, cpairs, dur_den, wav.framerate)[1]
                /\ dur_den' = call_filter(name, cpairs, dur_den, wav.framerate)[2]
                /\ UNCHANGED <<pc, error>>
    /\ UNCHANGED <<runConf, infile_opened, output_state, writer_pairs, message,
                   otherRunVars>>

\* cli.convert: Gazouilli(...).convert writes the filtered pairs with the
\* writer to the stream; fp.close()
CliWrite ==
    /\ pc = "filters"
    /\ prog = "cli"
    /\ filter_calls = Len(filters_names)
    /\ writer_pairs' = cpairs
    /\ output_state' = "complete"
    /\ pc' = "done"
    /\ UNCHANGED <<runConf, cpairs, dur_den, filter_calls, infile_opened, error, message,
                   otherRunVars>>

\* legacy read_wave, up to the call of filter_output; _handle_error exits
LegacyReadWave ==
    /\ pc = "convert"
    /\ prog = "legacy"
    /\ infile_opened' = wav.readable
    /\ IF wave_error(wav) # ""
       THEN /\ error' = IF wav.readable THEN "SystemExit" ELSE "IOError"
            /\ message' = wave_error(wav)
            /\ pc' = "exit"
            /\ UNCHANGED cpairs
       ELSE /\ cpairs' = gather_notes(clamped_freqs)
            /\ pc' = "filters"
            /\ UNCHANGED <<error, message>>
    /\ UNCHANGED <<runConf, dur_den, filter_calls, output_state, writer_pairs,
                   otherRunVars>>

\* legacy filter_output: one iteration of  for fn in filters_to_use:
\* result = fn(result, params)
LegacyFilter ==
    /\ pc = "filters"
    /\ prog = "legacy"
    /\ filter_calls < Len(filters_names)
    /\ filter_calls' = filter_calls + 1
    /\ LET name == At(filters_names, filter_calls)
       IN  IF call_raises(name, 2)
           THEN /\ error' = "TypeError"
                /\ pc' = "exit"
                /\ UNCHANGED <<cpairs, dur_den>>
           ELSE /\ cpairs' = call_filter(name, cpairs, dur_den, wav.framerate)[1]
                /\ dur_den' = call_filter(name, cpairs, dur_den, wav.framerate)[2]
                /\ UNCHANGED <<pc, error>>
    /\ UNCHANGED <<runConf, infile_opened, output_state, writer_pairs, message,
                   otherRunVars>>

\* legacy convert, after read_wave: the writer is constructed and writes the
\* output file
LegacyWrite ==
    /\ pc = "filters"
    /\ prog = "legacy"
    /\ filter_calls = Len(filters_names)
    /\ writer_pairs' = cpairs
    /\ output_state' = "complete"
    /\ pc' = "done"
    /\ UNCHANGED <<runConf, cpairs, dur_den, filter_calls, infile_opened, error, message,
                   otherRunVars>>

NextRun ==
    \/ PackageMain \/ PackageReadWave \/ PackageFilter \/ PackageWrite
    \/ CliRun \/ CliOpen \/ CliRead \/ CliFilter \/ CliWrite
    \/ LegacyReadWave \/ LegacyFilter \/ LegacyWrite

SpecRun == InitRun /\ [][NextRun]_vars

\* the input violates the contract on channels, width, rate or compression
InvalidWav(w) ==
    /\ w.readable
    /\ \/ w.nchannels # 1
       \/ w.sampwidth # 2
       \/ ~(44000 <= w.framerate /\ w.framerate <= 44100)
       \/ w.comptype # "NONE"

WavLabels ==
    {"Only mono files are supported at the moment",
     "Only 16-bit files are supported at the moment",
     "Only 44kHz files are supported at the moment",
     "Only uncompressed files are supported"}

RunEnded == pc \in {"exit", "done"}

\* C12: when the input WAV violates the input contract the conversion fails
\* with a labeled GazouilliException and the output has not been opened,
\* created, truncated or written; every run ends with a complete output or
\* with none.
C12_InvalidWavLeavesNoOutput ==
    prog \in {"package", "cli"} =>
        /\ (pc = "exit" /\ infile_opened /\ InvalidWav(wav)) =>
               /\ error = "GazouilliException"
               /\ message \in WavLabels
               /\ output_state = "none"
        /\ (RunEnded => output_state \in {"none", "complete"})

\* a filter name outside the registry, a missing or unknown writer, or both an
\* output file and stdout
ConfigurationError ==
    \/ \E k \in 1..Len(filters_names) : filters_names[k] \notin filters_all
    \/ writer \notin VALID_WRITERS
    \/ stdout /\ output # ""

\* C13: in a run whose configuration, from the command line or from the JSON
\* file, has a configuration error, the input file is never read, no filter
\* is ever applied and no output is opened.
C13_ConfigurationErrorBeforeAnalysis ==
    (prog \in {"package", "cli"} /\ ConfigurationError) =>
        /\ ~infile_opened
        /\ filter_calls = 0
        /\ output_state = "none"

\* the configuration and the input let the conversion reach the writer
Convertible ==
    /\ ~ConfigurationError
    /\ stdout \/ output # "" \/ writer \in writers_naming_output
    /\ wave_error(wav) = ""

\* the pairs the analysis produces and the unit of their durations
AnalysisPairs ==
    IF prog = "legacy" THEN gather_notes(clamped_freqs)
    ELSE IF prog = "cli" THEN collect_consecutive_values(clamped_freqs)
    ELSE durations_in_seconds(collect_consecutive_values(clamped_freqs), WINDOW_SIZE)

AnalysisUnit == IF prog = "package" THEN wav.framerate ELSE 1

\* fk(...f2(f1(p))...) for the first k names, with the unit of the durations
RECURSIVE Composed(_, _)
Composed(names, k) ==
    IF k = 0 THEN <<AnalysisPairs, AnalysisUnit>>
    ELSE LET inner == Composed(names, k - 1)
         IN  call_filter(names[k], inner[1], inner[2], wav.framerate)

\* C19: for every chain of registered filters [f1, ..., fk] and the pairs p
\* of the analysis, the writer is given fk(...f2(f1(p))...): every filter is
\* called successfully, left to right, each on the output of the one before,
\* and the empty chain passes p unchanged.
C19_WriterGetsComposition ==
    (RunEnded /\ Convertible) =>
        /\ pc = "done"
        /\ error = ""
        /\ filter_calls = Len(filters_names)
        /\ <<writer_pairs, dur_den>> = Composed(filters_names, Len(filters_names))

\* C14: for the windows 60,60,60,0,0,60,60,60,60 with the weed and the
\* duration-conversion filters, the writer gets one note-60 pair covering the
\* nine windows when absorb is configured too, and two note-60 pairs, of
\* three and of four windows, when it is not.
C14_EndToEndExample ==
    (RunEnded /\ Convertible /\ clamped_freqs = ExampleWindows) =>
        /\ filters_names =
             <<"absorb_short_notes", "weed_out_short_notes", "durations_in_seconds">> =>
               /\ pc = "done"
               /\ dur_den = wav.framerate
               /\ writer_pairs = << <<60, 9 * WINDOW_SIZE>> >>
        /\ filters_names \in {<<"weed_out_short_notes", "durations_in_seconds">>,
                              <<"durations_in_seconds", "weed_out_short_notes">>} =>
               /\ pc = "done"
               /\ dur_den = wav.framerate
               /\ writer_pairs = << <<60, 3 * WINDOW_SIZE>>, <<60, 4 * WINDOW_SIZE>> >>

====
